---- MODULE Spec2Model ----
(***************************************************************************)
(* A model of the async-nats connection multiplexer                        *)
(* (src/async-nats/src/lib.rs): the bounded command queue, the event loop  *)
(* Connector::process, the subscription registry SubscriptionContext       *)
(* behind its mutex, the per-subscription delivery endpoints, the buffered *)
(* writer of the framed connection, and the Client and Subscriber handles. *)
(*                                                                         *)
(* Init is the state in which connect_with_options has returned: CONNECT   *)
(* and PING are queued, the event loop and the background tasks run.       *)
(*                                                                         *)
(* ParserSpec is the read side of the connection byte by byte: try_read_op *)
(* and read_op on what the server sends, from the handshake of             *)
(* connect_with_options on.                                                *)
(***************************************************************************)
EXTENDS Naturals, Sequences, FiniteSets

(* ---------------------------------------------------------------- bounds *)

\* mpsc::channel(128) of connect_with_options (lib.rs:775), scaled down.
CommandCapacity == 2

\* mpsc::channel(16) of Client::subscribe (lib.rs:729), scaled down.
SubscriptionCapacity == 1

\* Subscribe calls of a run: the sids are 1..MaxSubs.
MaxSubs == 2

\* What is done with the Client handles in a run: their calls (publish,
\* subscribe, flush, request) and their drops, over all handles.
MaxCalls == 2

\* MSG frames the server sends.
MaxMsgs == 2

\* Other server frames (PING, PONG, +OK, INFO) the event loop reads.
MaxCtl == 1

\* Writes or flushes of the stream that fail.
MaxIoErrors == 1

\* Commands the periodic PING and TryFlush tasks enqueue.
MaxTicks == 1

\* Bytes one read_buf of the stream returns, at most.
MaxRead == 2

(* ----------------------------------------------------------------- state *)

VARIABLES
  queue,            \* the command queue: commands sent and not yet received
  loopPc,           \* where Connector::process is
  loopArg,          \* the command or server op process is handling while it waits
  lock,             \* who holds the Mutex<SubscriptionContext>
  next_sid,         \* SubscriptionContext.next_sid
  next_uid,         \* SubscriptionContext.next_uid
  subscription_map, \* SubscriptionContext.subscription_map: sid -> its endpoint
  uid_map,          \* SubscriptionContext.uid_map: uid -> sid
  chan,             \* per endpoint: the messages sent and not yet received
  subscriber,       \* per endpoint: the state of its Receiver and Subscriber
  received,         \* per endpoint: the messages Subscriber::poll_next yielded
  ended,            \* per endpoint: poll_next yielded None
  sent,             \* per sid: MSG frames the server has sent so far
  ctl,              \* other server frames read so far
  readState,        \* the read side of the connection
  wbuf,             \* BufWriter's buffer: frames written and not flushed
  wire,             \* per origin: its frames flushed to the socket, in order
  lost,             \* tags of the commands whose write_op failed
  ioErrors,         \* failed writes and flushes so far
  ticks,            \* commands the background tasks have enqueued
  calls,            \* Client calls begun so far
  pc,               \* per Client handle: where its current call is, or "panicked"
  arg,              \* per Client handle: the sid its subscribe call inserted
  issued,           \* per Client handle: the frames its commands ask for, so far
  outcome,          \* per Client handle: how its last call ended
  sink,             \* per Client handle: the oneshot channel of its flush
  stream,           \* bytes the server sent that read_buf has not read yet
  buffer,           \* Connection.buffer: bytes read and not yet parsed
  readPc,           \* where read_op is
  readResult,       \* what try_read_op or read_op returned last
  taken,            \* the bytes try_read_op has advanced past, in order
  handshake,        \* how far connect_with_options is
  pings             \* PING frames the server sent that process has not read yet

vars == <<queue, loopPc, loopArg, lock, next_sid, next_uid,
          subscription_map, uid_map, chan, subscriber, received, ended, sent,
          ctl, readState, wbuf, wire, lost, ioErrors, ticks,
          calls, pc, arg, issued, outcome, sink,
          stream, buffer, readPc, readResult, taken, handshake, pings>>

\* The read side of the connection as read_op and the handshake see it, and
\* what the server has sent ahead of process.
parserVars == <<stream, buffer, readPc, readResult, taken, handshake, pings>>

\* Two clones of the Client handle (#[derive(Clone)], lib.rs:654).
Handles == {"h1", "h2"}

Sids == 1..MaxSubs

NoArg == [op |-> "none", h |-> "none", n |-> 0, id |-> 0]

\* Who sends commands: the Client handles, connect_with_options, its periodic
\* tasks, the tasks Subscribers spawn when dropped, and process itself for the
\* frames it writes unasked.
Origins == Handles \cup {"conn", "bg", "sub", "loop"}

\* A ClientOp in the queue. h names who sent it; n numbers the frames a Client
\* handle asks for (a Flush carries the number of frames asked for before it);
\* id is the sid or uid it carries.
Cmd(op, h, n, id) == [op |-> op, h |-> h, n |-> n, id |-> id]

\* process has returned: its Receiver is dropped and every send fails.
Terminated == loopPc \in {"done", "failed"}

(* -------------------------------------------------- SubscriptionContext *)

\* A lookup that ignores its key where it can: an entry of another sid.
GetOther(sid) ==
  IF \E s \in DOMAIN subscription_map : s # sid
  THEN subscription_map[CHOOSE s \in DOMAIN subscription_map : s # sid]
  ELSE IF sid \in DOMAIN subscription_map THEN subscription_map[sid] ELSE 0

\* SubscriptionContext::get
Get(sid) == IF sid \in DOMAIN subscription_map THEN subscription_map[sid] ELSE 0

\* A get_sid that finds no uid.
GetSidNone(uid) == 0

\* SubscriptionContext::get_sid
GetSid(uid) == IF uid \in DOMAIN uid_map THEN uid_map[uid] ELSE 0

\* A remove that empties the map.
RemoveAll(sid) == <<>>

\* SubscriptionContext::remove: the map without sid.
Remove(sid) == [s \in DOMAIN subscription_map \ {sid} |-> subscription_map[s]]

\* A counter that is not stepped.
SameId(n) == n

\* SubscriptionContext::insert steps next_sid and next_uid (lib.rs:525-526).
NextId(n) == n + 1

\* An insert that drops the entries of the other sids.
InsertAlone(sid) == [s \in {sid} |-> sid]

\* An insert that leaves subscription_map as it is.
InsertNothing(sid) == subscription_map

\* SubscriptionContext::insert: the endpoint is named after the sid it gets.
InsertMap(sid) == [s \in DOMAIN subscription_map \cup {sid} |->
                     IF s = sid THEN sid ELSE subscription_map[s]]

\* An insert that leaves uid_map as it is.
InsertNoUid(uid, sid) == uid_map

InsertUid(uid, sid) == [u \in DOMAIN uid_map \cup {uid} |->
                          IF u = uid THEN sid ELSE uid_map[u]]

(* ------------------------------------------------------------- channels *)

\* A queue that takes a send at its front.
EnqueueFront(q, cmd) == <<cmd>> \o q

\* mpsc::Sender::send on the command queue: to the back.
Enqueue(q, cmd) == Append(q, cmd)

\* mpsc::Sender::send on a delivery endpoint: to the back.
ChanPush(c, m) == Append(c, m)

\* The Receiver of endpoint e is closed: Subscriber dropped, or subscribe
\* unwound before it built the Subscriber.
RxClosed(e) == subscriber[e] \in {"closing", "gone", "aborted"}

\* f[1] + ... + f[n]
RECURSIVE SumTo(_, _)
SumTo(f, n) == IF n = 0 THEN 0 ELSE f[n] + SumTo(f, n - 1)

(* --------------------------------------------------- Connection::write_op *)

\* The frame write_op emits for a command.
WireOp(op) ==
  CASE op = "Connect" -> "CONNECT"
    [] op = "Publish" -> "PUB"
    [] op = "Subscribe" -> "SUB"
    [] op = "Unsubscribe" -> "UNSUB"
    [] op = "Ping" -> "PING"
    [] op = "Pong" -> "PONG"
    [] OTHER -> "none"

Frame(cmd) == [cmd EXCEPT !.op = WireOp(cmd.op)]

\* The arms of write_op that end in self.stream.flush().
FlushingOps == {"Subscribe", "Ping", "Pong", "Flush", "TryFlush"}

\* The arms of write_op that write a frame.
FramedOps == {"Connect", "Publish", "Subscribe", "Unsubscribe", "Ping", "Pong"}

\* How the stream can answer one write_op: every write_all and the flush
\* succeed, a write_all fails, or the flush fails.
IoChoices(op) ==
  IF ioErrors >= MaxIoErrors THEN {"ok"}
  ELSE {"ok"}
       \cup (IF op \in FramedOps THEN {"write_err"} ELSE {})
       \cup (IF op \in FlushingOps THEN {"flush_err"} ELSE {})

\* BufWriter's buffer once the frame is written.
Written(cmd, io) ==
  IF cmd.op \in FramedOps /\ io # "write_err" THEN Append(wbuf, Frame(cmd)) ELSE wbuf

\* A write_op whose Flush arm answers without flushing the stream.
FlushedNoFlush(cmd, io) == cmd.op \in (FlushingOps \ {"Flush"}) /\ io = "ok"

\* The stream was flushed by this write_op.
Flushed(cmd, io) == cmd.op \in FlushingOps /\ io = "ok"

\* The frames of one origin among buf, in order.
From(buf, o) == LET Is(f) == f.h = o IN SelectSeq(buf, Is)

\* A flush that puts the buffered frames ahead of those already on the socket.
FlushAhead(w, buf) == [o \in Origins |-> From(buf, o) \o w[o]]

\* stream.flush(): the buffered frames follow those already on the socket.
\* The socket's stream is kept per origin.
Flush(w, buf) == [o \in Origins |-> w[o] \o From(buf, o)]

\* write_op's effect on the buffered writer and the socket.
WriteOp(cmd, io) ==
  /\ wbuf' = IF Flushed(cmd, io) THEN <<>> ELSE Written(cmd, io)
  /\ wire' = IF Flushed(cmd, io) THEN Flush(wire, Written(cmd, io)) ELSE wire
  /\ ioErrors' = IF io = "ok" THEN ioErrors ELSE ioErrors + 1
  /\ lost' = IF io = "write_err" /\ cmd.h \in Handles
             THEN lost \cup {<<cmd.h, cmd.n>>} ELSE lost

(* ----------------------------------------------------- Connector::process *)

\* process returns: its Receiver is dropped with the commands still queued,
\* and with them the oneshot Senders of the queued Flush commands; a registry
\* guard it holds is released.
Stop(status) ==
  /\ loopPc' = status
  /\ loopArg' = NoArg
  /\ lock' = IF lock = "loop" THEN "free" ELSE lock
  /\ queue' = <<>>
  /\ sink' = [h \in Handles |-> IF sink[h] = "pending" THEN "dropped" ELSE sink[h]]

\* The loop goes round to select! again, the registry guard dropped.
Continue ==
  /\ loopPc' = "select"
  /\ loopArg' = NoArg
  /\ lock' = "free"

\* lib.rs:573-590, the registry guard held: Unsubscribe{id} is resolved to its
\* sid, the sid removed, UNSUB written; a failed write is printed.
Unsubscribe(cmd) ==
  LET sid == GetSid(cmd.id) IN
  /\ Continue
  /\ IF sid = 0
     THEN UNCHANGED <<subscription_map, wbuf, wire, ioErrors, lost>>
     ELSE /\ subscription_map' = Remove(sid)
          /\ \E io \in IoChoices("Unsubscribe") :
               WriteOp(Cmd("Unsubscribe", cmd.h, cmd.n, sid), io)

\* select! takes a command from the queue: Unsubscribe (lib.rs:573-590).
LoopRecvUnsubscribe ==
  /\ loopPc = "select"
  /\ queue # <<>>
  /\ Head(queue).op = "Unsubscribe"
  /\ queue' = Tail(queue)
  /\ IF lock = "free"
     THEN Unsubscribe(Head(queue))
     ELSE /\ loopPc' = "lock_unsub"
          /\ loopArg' = Head(queue)
          /\ UNCHANGED <<lock, subscription_map, wbuf, wire, ioErrors, lost>>
  /\ UNCHANGED <<next_sid, next_uid, uid_map, chan, subscriber, received, ended,
                 sent, ctl, readState, ticks, calls, pc, arg,
                 issued, outcome, sink>>
  /\ UNCHANGED parserVars

\* subscription_context.lock().await returns (lib.rs:574).
LoopUnsubLocked ==
  /\ loopPc = "lock_unsub"
  /\ lock = "free"
  /\ Unsubscribe(loopArg)
  /\ UNCHANGED <<queue, next_sid, next_uid, uid_map, chan, subscriber, received,
                 ended, sent, ctl, readState, ticks, calls, pc,
                 arg, issued, outcome, sink>>
  /\ UNCHANGED parserVars

\* Every Sender of the command queue is dropped: the Client handles, the
\* Senders the Subscribers carry and hand to the tasks they spawn when dropped
\* (lib.rs:877, 915), and those of the periodic tasks of connect_with_options
\* (lib.rs:807-828), which return only once a send of theirs has failed, that
\* is, once process has returned.
QueueClosed ==
  /\ \A h \in Handles : pc[h] = "dropped"
  /\ \A e \in Sids : subscriber[e] \notin {"live", "request", "closing"}
  /\ Terminated

\* recv() returned None (lib.rs:595-599): the loop is left, the stream flushed
\* and process returns, with the flush's error if it failed (lib.rs:645-647).
Break ==
  \E io \in IoChoices("TryFlush") :
    /\ wire' = IF io = "ok" THEN Flush(wire, wbuf) ELSE wire
    /\ wbuf' = IF io = "ok" THEN <<>> ELSE wbuf
    /\ ioErrors' = IF io = "ok" THEN ioErrors ELSE ioErrors + 1
    /\ lost' = lost
    /\ Stop(IF io = "ok" THEN "done" ELSE "failed")

\* select! takes what receiver.recv() returns: a command other than
\* Unsubscribe goes to write_op, a failed write is printed (lib.rs:591-593),
\* and Flush sends the flush's result through its oneshot (lib.rs:481-485);
\* None, once the queue is empty and closed, leaves the loop (lib.rs:595-599).
LoopRecvWrite ==
  /\ loopPc = "select"
  /\ IF queue = <<>>
     THEN QueueClosed /\ Break
     ELSE /\ Head(queue).op # "Unsubscribe"
          /\ queue' = Tail(queue)
          /\ \E io \in IoChoices(Head(queue).op) :
               /\ WriteOp(Head(queue), io)
               /\ sink' = IF Head(queue).op = "Flush"
                          THEN [sink EXCEPT ![Head(queue).h] = IF io = "ok" THEN "ok" ELSE "err"]
                          ELSE sink
          /\ UNCHANGED <<loopPc, loopArg, lock>>
  /\ UNCHANGED <<next_sid, next_uid, subscription_map,
                 uid_map, chan, subscriber, received, ended, sent, ctl,
                 readState, ticks, calls, pc, arg, issued,
                 outcome>>
  /\ UNCHANGED parserVars

\* A MSG frame as the loop holds it, and as the endpoint carries it: sid and n
\* name the frame (the n-th MSG the server sent for sid).
Msg(sid, n) == Cmd("Message", "server", n, sid)

\* lib.rs:620-624: the send failed; the sid is removed, UNSUB written and the
\* stream flushed (a write and a flush, as in write_op's Subscribe arm), and an
\* error of either returns from process.
Evict(sid) ==
  /\ subscription_map' = Remove(sid)
  /\ UNCHANGED <<chan, lost>>
  /\ \E io \in IoChoices("Subscribe") :
       /\ wbuf' = IF io = "flush_err" THEN Append(wbuf, Frame(Cmd("Unsubscribe", "loop", 0, sid)))
                  ELSE IF io = "ok" THEN <<>> ELSE wbuf
       /\ wire' = IF io = "ok"
                  THEN Flush(wire, Append(wbuf, Frame(Cmd("Unsubscribe", "loop", 0, sid))))
                  ELSE wire
       /\ ioErrors' = IF io = "ok" THEN ioErrors ELSE ioErrors + 1
       /\ IF io = "ok"
          THEN Continue /\ UNCHANGED <<queue, sink>>
          ELSE Stop("failed")

\* A delivery that gives up on a full endpoint: the message is dropped and the
\* loop goes round.
ParkDrop(m) ==
  /\ Continue
  /\ UNCHANGED <<queue, sink, subscription_map, chan, wbuf, wire, ioErrors, lost>>

\* Sender::send(message).await on a full endpoint whose Receiver is open
\* (lib.rs:620): process waits in it, the registry guard held.
Park(m) ==
  /\ loopPc' = "sending"
  /\ loopArg' = m
  /\ lock' = "loop"
  /\ UNCHANGED <<queue, sink, subscription_map, chan, wbuf, wire, ioErrors, lost>>

\* lib.rs:610-626, the registry guard held: the message goes to the endpoint
\* registered for its sid. Sender::send waits while the endpoint is full and
\* fails once its Receiver is closed.
Deliver(m) ==
  LET e == Get(m.id) IN
  IF e = 0
  THEN /\ Continue
       /\ UNCHANGED <<queue, sink, subscription_map, chan, wbuf, wire, ioErrors, lost>>
  ELSE IF RxClosed(e)
  THEN Evict(m.id)
  ELSE IF Len(chan[e]) < SubscriptionCapacity
  THEN /\ chan' = [chan EXCEPT ![e] = ChanPush(chan[e], m)]
       /\ Continue
       /\ UNCHANGED <<queue, sink, subscription_map, wbuf, wire, ioErrors, lost>>
  ELSE Park(m)

\* The server has the subscription: its SUB frame reached the socket.
ServerHas(sid) ==
  \E h \in Handles : \E i \in 1..Len(wire[h]) :
    wire[h][i].op = "SUB" /\ wire[h][i].id = sid

\* select! takes read_op's result: a MSG (lib.rs:609-627), sent as it is read,
\* behind every PING that waits in the socket.
LoopReadMsg(sid) ==
  /\ loopPc = "select"
  /\ readState = "open"
  /\ pings = 0
  /\ ServerHas(sid)
  /\ SumTo(sent, MaxSubs) < MaxMsgs
  /\ sent' = [sent EXCEPT ![sid] = sent[sid] + 1]
  /\ IF lock = "free"
     THEN Deliver(Msg(sid, sent[sid] + 1))
     ELSE /\ loopPc' = "lock_msg"
          /\ loopArg' = Msg(sid, sent[sid] + 1)
          /\ UNCHANGED <<queue, sink, lock, subscription_map, chan, wbuf, wire,
                         ioErrors, lost>>
  /\ UNCHANGED <<next_sid, next_uid, uid_map, subscriber, received, ended, ctl,
                 readState, ticks, calls, pc, arg, issued, outcome>>
  /\ UNCHANGED parserVars

\* subscription_context.lock().await returns (lib.rs:610).
LoopMsgLocked ==
  /\ loopPc = "lock_msg"
  /\ lock = "free"
  /\ Deliver(loopArg)
  /\ UNCHANGED <<next_sid, next_uid, uid_map, subscriber, received, ended, sent,
                 ctl, readState, ticks, calls, pc, arg, issued,
                 outcome>>
  /\ UNCHANGED parserVars

\* subscription.sender.send(message).await returns (lib.rs:620): the endpoint
\* has room again, or its Receiver was closed.
LoopSendResume ==
  /\ loopPc = "sending"
  /\ RxClosed(Get(loopArg.id)) \/ Len(chan[Get(loopArg.id)]) < SubscriptionCapacity
  /\ Deliver(loopArg)
  /\ UNCHANGED <<next_sid, next_uid, uid_map, subscriber, received, ended, sent,
                 ctl, readState, ticks, calls, pc, arg, issued,
                 outcome>>
  /\ UNCHANGED parserVars

\* The Ping arm (lib.rs:606-608): PONG is written and flushed, and a failed
\* write or flush returns from process.
PingArm ==
  /\ ctl' = ctl + 1
  /\ \E io \in IoChoices("Pong") :
       /\ WriteOp(Cmd("Pong", "loop", 0, 0), io)
       /\ IF io = "ok"
          THEN UNCHANGED <<loopPc, loopArg, lock, queue, sink>>
          ELSE Stop("failed")
  /\ UNCHANGED <<next_sid, next_uid, subscription_map, uid_map, chan, subscriber,
                 received, ended, sent, readState, ticks, calls,
                 pc, arg, issued, outcome>>

\* select! takes read_op's result: a PING the server sends as process reads
\* it, answered by PONG (lib.rs:606-608).
LoopReadPing ==
  /\ loopPc = "select"
  /\ readState = "open"
  /\ ctl < MaxCtl
  /\ PingArm
  /\ UNCHANGED parserVars

\* The server sends a PING: it waits in the socket for process to read it.
ServerPing ==
  /\ ~Terminated
  /\ readState = "open"
  /\ ctl + pings < MaxCtl
  /\ pings' = pings + 1
  /\ UNCHANGED <<stream, buffer, readPc, readResult, taken, handshake>>
  /\ UNCHANGED <<queue, loopPc, loopArg, lock, next_sid, next_uid,
                 subscription_map, uid_map, chan, subscriber, received, ended,
                 sent, ctl, readState, wbuf, wire, lost, ioErrors, ticks,
                 calls, pc, arg, issued, outcome, sink>>

\* select! takes read_op's result: a PING that waited in the socket, answered
\* by PONG (lib.rs:606-608).
LoopReadSentPing ==
  /\ loopPc = "select"
  /\ readState = "open"
  /\ pings > 0
  /\ pings' = pings - 1
  /\ PingArm
  /\ UNCHANGED <<stream, buffer, readPc, readResult, taken, handshake>>

\* select! takes read_op's result: PONG, +OK or INFO, ignored (lib.rs:633-635).
LoopReadIgnored ==
  /\ loopPc = "select"
  /\ readState = "open"
  /\ ctl < MaxCtl
  /\ ctl' = ctl + 1
  /\ UNCHANGED <<queue, loopPc, loopArg, lock, next_sid, next_uid,
                 subscription_map, uid_map, chan, subscriber, received, ended,
                 sent, readState, wbuf, wire, lost, ioErrors,
                 ticks, calls, pc, arg, issued, outcome, sink>>
  /\ UNCHANGED parserVars

\* select! takes read_op's result: Ok(None), the stream ended with an empty
\* read buffer, every frame sent read; process returns Ok(()) (lib.rs:629-631).
LoopReadEnd ==
  /\ loopPc = "select"
  /\ readState = "open"
  /\ pings = 0
  /\ Stop("done")
  /\ UNCHANGED <<next_sid, next_uid, subscription_map, uid_map, chan, subscriber,
                 received, ended, sent, ctl, readState, wbuf, wire,
                 lost, ioErrors, ticks, calls, pc, arg, issued, outcome>>
  /\ UNCHANGED parserVars

\* select! takes read_op's result: Err. `if let Ok(maybe_op) = result` has no
\* else (lib.rs:604-637): the loop goes round. A frame that does not parse
\* stays in the read buffer and a reset stream stays reset (lib.rs:413-423),
\* so every later read_op fails too. (A read error that leaves the stream
\* readable changes nothing process keeps: it is a stuttering step.)
LoopReadErr ==
  /\ loopPc = "select"
  /\ readState' = "broken"
  /\ UNCHANGED <<queue, loopPc, loopArg, lock, next_sid, next_uid,
                 subscription_map, uid_map, chan, subscriber, received, ended,
                 sent, ctl, wbuf, wire, lost, ioErrors, ticks, calls, pc, arg,
                 issued, outcome, sink>>
  /\ UNCHANGED parserVars

(* ------------------------------------------------------------------ Client *)

\* A command queue that takes every send at once, full or not.
NeverWaits == TRUE

\* The command queue takes a send: it has room, or its Receiver is gone and
\* the send fails. A sender otherwise waits.
CanSend == Terminated \/ Len(queue) < CommandCapacity

\* The handle, not in a call, is put to its next use.
Begin(h) ==
  /\ pc[h] = "idle"
  /\ calls < MaxCalls
  /\ calls' = calls + 1

\* The handle's next command, sent.
Send(h, op, id) ==
  /\ issued' = [issued EXCEPT ![h] = IF op \in FramedOps THEN @ + 1 ELSE @]
  /\ queue' = Enqueue(queue, Cmd(op, h, issued'[h], id))

\* Client::publish and Client::publish_with_reply (lib.rs:671-696).
Publish(h) ==
  /\ Begin(h)
  /\ CanSend
  /\ IF Terminated
     THEN /\ outcome' = [outcome EXCEPT ![h] = "err"]
          /\ UNCHANGED <<queue, issued>>
     ELSE /\ Send(h, "Publish", 0)
          /\ outcome' = [outcome EXCEPT ![h] = "ok"]
  /\ UNCHANGED <<loopPc, loopArg, lock, next_sid, next_uid, subscription_map,
                 uid_map, chan, subscriber, received, ended, sent, ctl,
                 readState, wbuf, wire, lost, ioErrors, ticks, pc,
                 arg, sink>>
  /\ UNCHANGED parserVars

\* Client::subscribe up to its send (lib.rs:729-733): the registry guard is
\* taken and SubscriptionContext::insert (lib.rs:522-532) run.
SubscribeInsert(h) ==
  /\ Begin(h)
  /\ next_sid <= MaxSubs
  /\ lock = "free"
  /\ lock' = h
  /\ next_sid' = NextId(next_sid)
  /\ next_uid' = NextId(next_uid)
  /\ subscription_map' = InsertMap(next_sid)
  /\ uid_map' = InsertUid(next_uid, next_sid)
  /\ pc' = [pc EXCEPT ![h] = "sub_send"]
  /\ arg' = [arg EXCEPT ![h] = next_sid]
  /\ UNCHANGED <<queue, loopPc, loopArg, chan, subscriber, received, ended, sent,
                 ctl, readState, wbuf, wire, lost, ioErrors, ticks,
                 issued, outcome, sink>>
  /\ UNCHANGED parserVars

\* Client::subscribe from its send on (lib.rs:735-740), the guard still held:
\* a failed send is unwrapped, and the unwinding drops the guard and the
\* Receiver; otherwise the Subscriber is returned and the guard dropped.
SubscribeSend(h) ==
  /\ pc[h] = "sub_send"
  /\ CanSend
  /\ lock' = "free"
  /\ arg' = [arg EXCEPT ![h] = 0]
  /\ IF Terminated
     THEN /\ pc' = [pc EXCEPT ![h] = "panicked"]
          /\ subscriber' = [subscriber EXCEPT ![arg[h]] = "aborted"]
          /\ UNCHANGED <<queue, issued, outcome>>
     ELSE /\ Send(h, "Subscribe", arg[h])
          /\ pc' = [pc EXCEPT ![h] = "idle"]
          /\ outcome' = [outcome EXCEPT ![h] = "ok"]
          /\ subscriber' = [subscriber EXCEPT ![arg[h]] = "live"]
  /\ UNCHANGED <<loopPc, loopArg, next_sid, next_uid, subscription_map, uid_map,
                 chan, received, ended, sent, ctl, readState, wbuf,
                 wire, lost, ioErrors, ticks, calls, sink>>
  /\ UNCHANGED parserVars

\* Client::flush up to its await of the oneshot (lib.rs:744-745).
FlushSend(h) ==
  /\ Begin(h)
  /\ CanSend
  /\ IF Terminated
     THEN /\ outcome' = [outcome EXCEPT ![h] = "err"]
          /\ UNCHANGED <<queue, issued, pc, sink>>
     ELSE /\ Send(h, "Flush", 0)
          /\ pc' = [pc EXCEPT ![h] = "flush_wait"]
          /\ sink' = [sink EXCEPT ![h] = "pending"]
          /\ UNCHANGED outcome
  /\ UNCHANGED <<loopPc, loopArg, lock, next_sid, next_uid, subscription_map,
                 uid_map, chan, subscriber, received, ended, sent, ctl,
                 readState, wbuf, wire, lost, ioErrors, ticks, arg>>
  /\ UNCHANGED parserVars

\* Client::flush: rx.await?? returns (lib.rs:747): the flush's result, or the
\* error of a oneshot whose Sender was dropped.
FlushReturn(h) ==
  /\ pc[h] = "flush_wait"
  /\ sink[h] # "pending"
  /\ outcome' = [outcome EXCEPT ![h] = IF sink[h] = "ok" THEN "ok" ELSE "err"]
  /\ pc' = [pc EXCEPT ![h] = "idle"]
  /\ sink' = [sink EXCEPT ![h] = "none"]
  /\ UNCHANGED <<queue, loopPc, loopArg, lock, next_sid, next_uid,
                 subscription_map, uid_map, chan, subscriber, received, ended,
                 sent, ctl, readState, wbuf, wire, lost, ioErrors,
                 ticks, calls, arg, issued>>
  /\ UNCHANGED parserVars

\* Client::request (lib.rs:699-700) up to the send of its subscribe
\* (lib.rs:729-733): the inbox is subscribed to, the registry guard taken and
\* SubscriptionContext::insert run.
RequestInsert(h) ==
  /\ Begin(h)
  /\ next_sid <= MaxSubs
  /\ lock = "free"
  /\ lock' = h
  /\ next_sid' = NextId(next_sid)
  /\ next_uid' = NextId(next_uid)
  /\ subscription_map' = InsertMap(next_sid)
  /\ uid_map' = InsertUid(next_uid, next_sid)
  /\ pc' = [pc EXCEPT ![h] = "req_sub"]
  /\ arg' = [arg EXCEPT ![h] = next_sid]
  /\ UNCHANGED <<queue, loopPc, loopArg, chan, subscriber, received, ended, sent,
                 ctl, readState, wbuf, wire, lost, ioErrors, ticks,
                 issued, outcome, sink>>
  /\ UNCHANGED parserVars

\* Client::request, the send of its subscribe (lib.rs:700, 735-740): as in
\* subscribe a failed send is unwrapped; otherwise request holds the
\* Subscriber of its inbox.
RequestSubscribe(h) ==
  /\ pc[h] = "req_sub"
  /\ CanSend
  /\ lock' = "free"
  /\ IF Terminated
     THEN /\ pc' = [pc EXCEPT ![h] = "panicked"]
          /\ subscriber' = [subscriber EXCEPT ![arg[h]] = "aborted"]
          /\ arg' = [arg EXCEPT ![h] = 0]
          /\ UNCHANGED <<queue, issued>>
     ELSE /\ Send(h, "Subscribe", arg[h])
          /\ pc' = [pc EXCEPT ![h] = "req_pub"]
          /\ subscriber' = [subscriber EXCEPT ![arg[h]] = "request"]
          /\ UNCHANGED arg
  /\ UNCHANGED <<loopPc, loopArg, next_sid, next_uid, subscription_map, uid_map,
                 chan, received, ended, sent, ctl, readState, wbuf,
                 wire, lost, ioErrors, ticks, calls, outcome, sink>>
  /\ UNCHANGED parserVars

\* request returns to its caller: its Subscriber is dropped with what its
\* Receiver buffers (lib.rs:911-922).
RequestReturn(h, result) ==
  /\ pc' = [pc EXCEPT ![h] = "idle"]
  /\ outcome' = [outcome EXCEPT ![h] = result]
  /\ subscriber' = [subscriber EXCEPT ![arg[h]] = "closing"]
  /\ arg' = [arg EXCEPT ![h] = 0]

\* Client::request, its publish_with_reply (lib.rs:701, 688-694): the Publish
\* carries the inbox as its reply subject; a failed send returns the error.
RequestPublish(h) ==
  /\ pc[h] = "req_pub"
  /\ CanSend
  /\ IF Terminated
     THEN /\ RequestReturn(h, "err")
          /\ chan' = [chan EXCEPT ![arg[h]] = <<>>]
          /\ UNCHANGED <<queue, issued>>
     ELSE /\ Send(h, "Publish", arg[h])
          /\ pc' = [pc EXCEPT ![h] = "req_flush"]
          /\ UNCHANGED <<outcome, subscriber, arg, chan>>
  /\ UNCHANGED <<loopPc, loopArg, lock, next_sid, next_uid, subscription_map,
                 uid_map, received, ended, sent, ctl, readState, wbuf, wire,
                 lost, ioErrors, ticks, calls, sink>>
  /\ UNCHANGED parserVars

\* Client::request, its flush up to the await of the oneshot (lib.rs:702,
\* 744-745).
RequestFlush(h) ==
  /\ pc[h] = "req_flush"
  /\ CanSend
  /\ IF Terminated
     THEN /\ RequestReturn(h, "err")
          /\ chan' = [chan EXCEPT ![arg[h]] = <<>>]
          /\ UNCHANGED <<queue, issued, sink>>
     ELSE /\ Send(h, "Flush", 0)
          /\ pc' = [pc EXCEPT ![h] = "req_wait"]
          /\ sink' = [sink EXCEPT ![h] = "pending"]
          /\ UNCHANGED <<outcome, subscriber, arg, chan>>
  /\ UNCHANGED <<loopPc, loopArg, lock, next_sid, next_uid, subscription_map,
                 uid_map, received, ended, sent, ctl, readState, wbuf, wire,
                 lost, ioErrors, ticks, calls>>
  /\ UNCHANGED parserVars

\* Client::request, its flush returns (lib.rs:702, 747): an error returns
\* from request.
RequestFlushed(h) ==
  /\ pc[h] = "req_wait"
  /\ sink[h] # "pending"
  /\ sink' = [sink EXCEPT ![h] = "none"]
  /\ IF sink[h] = "ok"
     THEN /\ pc' = [pc EXCEPT ![h] = "req_next"]
          /\ UNCHANGED <<outcome, subscriber, arg, chan>>
     ELSE /\ RequestReturn(h, "err")
          /\ chan' = [chan EXCEPT ![arg[h]] = <<>>]
  /\ UNCHANGED <<queue, loopPc, loopArg, lock, next_sid, next_uid,
                 subscription_map, uid_map, received, ended, sent, ctl,
                 readState, wbuf, wire, lost, ioErrors, ticks, calls, issued>>
  /\ UNCHANGED parserVars

\* Client::request, sub.next().await (lib.rs:703-709): the first message the
\* inbox's endpoint yields is returned; None, once the endpoint is empty and
\* its Sender dropped, is an error.
RequestNext(h) ==
  /\ pc[h] = "req_next"
  /\ IF chan[arg[h]] # <<>>
     THEN /\ received' = [received EXCEPT ![arg[h]] = Append(@, Head(chan[arg[h]]))]
          /\ RequestReturn(h, "ok")
     ELSE /\ arg[h] \notin DOMAIN subscription_map
          /\ RequestReturn(h, "err")
          /\ UNCHANGED received
  /\ chan' = [chan EXCEPT ![arg[h]] = <<>>]
  /\ UNCHANGED <<queue, loopPc, loopArg, lock, next_sid, next_uid,
                 subscription_map, uid_map, ended, sent, ctl, readState, wbuf,
                 wire, lost, ioErrors, ticks, calls, issued, sink>>
  /\ UNCHANGED parserVars

\* The handle is dropped, and its Sender of the command queue with it.
ClientDrop(h) ==
  /\ Begin(h)
  /\ pc' = [pc EXCEPT ![h] = "dropped"]
  /\ UNCHANGED <<queue, loopPc, loopArg, lock, next_sid, next_uid,
                 subscription_map, uid_map, chan, subscriber, received, ended,
                 sent, ctl, readState, wbuf, wire, lost, ioErrors,
                 ticks, arg, issued, outcome, sink>>
  /\ UNCHANGED parserVars

(* -------------------------------------------------------------- Subscriber *)

\* Stream::poll_next (lib.rs:927-929): the next buffered message, or None once
\* the endpoint is empty and its Sender, the registry entry, is dropped.
SubscriberNext(e) ==
  /\ subscriber[e] = "live"
  /\ ~ended[e]
  /\ IF chan[e] # <<>>
     THEN /\ received' = [received EXCEPT ![e] = Append(received[e], Head(chan[e]))]
          /\ chan' = [chan EXCEPT ![e] = Tail(chan[e])]
          /\ UNCHANGED ended
     ELSE /\ e \notin DOMAIN subscription_map
          /\ ended' = [ended EXCEPT ![e] = TRUE]
          /\ UNCHANGED <<received, chan>>
  /\ UNCHANGED <<queue, loopPc, loopArg, lock, next_sid, next_uid,
                 subscription_map, uid_map, subscriber, sent, ctl, readState, wbuf, wire, lost, ioErrors, ticks, calls, pc, arg,
                 issued, outcome, sink>>
  /\ UNCHANGED parserVars

\* Drop for Subscriber (lib.rs:911-922): the Receiver is closed and dropped
\* with what it buffers, and a task is spawned to send Unsubscribe.
SubscriberDrop(e) ==
  /\ subscriber[e] = "live"
  /\ subscriber' = [subscriber EXCEPT ![e] = "closing"]
  /\ chan' = [chan EXCEPT ![e] = <<>>]
  /\ UNCHANGED <<queue, loopPc, loopArg, lock, next_sid, next_uid,
                 subscription_map, uid_map, received, ended, sent, ctl,
                 readState, wbuf, wire, lost, ioErrors, ticks,
                 calls, pc, arg, issued, outcome, sink>>
  /\ UNCHANGED parserVars

\* The task spawned by drop (lib.rs:917-919): Unsubscribe{id: uid} is sent, a
\* failure ignored. The Subscriber's uid is the sid insert returned.
UnsubscribeSend(e) ==
  /\ subscriber[e] = "closing"
  /\ CanSend
  /\ subscriber' = [subscriber EXCEPT ![e] = "gone"]
  /\ queue' = IF Terminated THEN queue
              ELSE Enqueue(queue, Cmd("Unsubscribe", "sub", 0, e))
  /\ UNCHANGED <<loopPc, loopArg, lock, next_sid, next_uid, subscription_map,
                 uid_map, chan, received, ended, sent, ctl, readState, wbuf, wire, lost, ioErrors, ticks, calls, pc, arg,
                 issued, outcome, sink>>
  /\ UNCHANGED parserVars

(* -------------------------------------------------------- background tasks *)

\* The periodic tasks of connect_with_options (lib.rs:807-828) send Ping and
\* TryFlush.
Tick(op) ==
  /\ ticks < MaxTicks
  /\ ~Terminated
  /\ Len(queue) < CommandCapacity
  /\ ticks' = ticks + 1
  /\ queue' = Enqueue(queue, Cmd(op, "bg", 0, 0))
  /\ UNCHANGED <<loopPc, loopArg, lock, next_sid, next_uid, subscription_map,
                 uid_map, chan, subscriber, received, ended, sent, ctl,
                 readState, wbuf, wire, lost, ioErrors, calls, pc,
                 arg, issued, outcome, sink>>
  /\ UNCHANGED parserVars

(* ------------------------------------------------- Connection::try_read_op *)

\* Bytes are named by strings: "SP" is the space, "CR" and "LF" the two bytes
\* of the line end, "FF" the byte 0xFF, which no UTF-8 text holds; every other
\* byte stands for its ASCII character.
CRLF == <<"CR", "LF">>

\* No ServerOp.
NoOp == [kind |-> "none", sid |-> 0, subject |-> <<>>, reply |-> <<>>, payload |-> <<>>]

\* A ServerOp without fields: Ok, Ping, Pong, and Info, whose ServerInfo is
\* not looked into here.
Plain(kind) == [NoOp EXCEPT !.kind = kind]

\* ServerOp::Message; reply is <<>> for None and <<r>> for Some(r).
Message(sid, subject, reply, payload) ==
  [kind |-> "Message", sid |-> sid, subject |-> subject, reply |-> reply,
   payload |-> payload]

\* What a call returns: kind is "op" for Ok(Some(op)), "none" for Ok(None)
\* of try_read_op, "end" for Ok(None) of read_op, "err" for Err, "panic" for
\* a call that unwinds instead of returning.
Returned(kind, op) == [kind |-> kind, op |-> op]

\* buffer.starts_with(pat)
StartsWith(buf, pat) == Len(buf) >= Len(pat) /\ SubSeq(buf, 1, Len(pat)) = pat

\* The offsets at which pat occurs in buf.
Occurrences(buf, pat) ==
  {i \in 0..Len(buf) : i + Len(pat) <= Len(buf) /\ SubSeq(buf, i + 1, i + Len(pat)) = pat}

\* buffer.find(pat) is Some.
Found(buf, pat) == Occurrences(buf, pat) # {}

\* buffer.find(pat): the offset of its first occurrence.
Find(buf, pat) ==
  CHOOSE i \in Occurrences(buf, pat) : \A j \in Occurrences(buf, pat) : i <= j

\* buffer[from..to], offsets counted from 0.
Slice(buf, from, to) == SubSeq(buf, from + 1, to)

\* What buffer.advance(n) leaves.
Advance(buf, n) == SubSeq(buf, n + 1, Len(buf))

\* std::str::from_utf8 is Ok.
Utf8(bytes) == \A i \in 1..Len(bytes) : bytes[i] # "FF"

\* serde_json::from_str::<ServerInfo> is Ok: of the texts made of the bytes
\* above those are the object without members, with or without spaces (every
\* field of ServerInfo has a default, lib.rs:152-192).
FromJson(line) ==
  LET NotSpace(b) == b # "SP" IN SelectSeq(line, NotSpace) = <<"{", "}">>

\* line.split(' ').filter(|s| !s.is_empty()).collect()
RECURSIVE Args(_)
Args(line) ==
  IF line = <<>> THEN <<>>
  ELSE IF Head(line) = "SP" THEN Args(Tail(line))
  ELSE LET n == IF Found(line, <<"SP">>) THEN Find(line, <<"SP">>) ELSE Len(line)
       IN <<SubSeq(line, 1, n)>> \o Args(Advance(line, n))

Digits == <<"0", "1", "2", "3", "4", "5", "6", "7", "8", "9">>

IsDigit(b) == \E d \in 1..Len(Digits) : Digits[d] = b

DigitValue(b) == (CHOOSE d \in 1..Len(Digits) : Digits[d] = b) - 1

\* The number a text of digits stands for.
RECURSIVE Decimal(_)
Decimal(text) ==
  IF text = <<>> THEN 0
  ELSE Decimal(SubSeq(text, 1, Len(text) - 1)) * 10 + DigitValue(text[Len(text)])

\* The digits u64::from_str and usize::from_str read: a leading + is passed.
Unsigned(text) == IF Len(text) > 1 /\ Head(text) = "+" THEN Tail(text) ELSE text

\* u64::from_str and usize::from_str are Ok. (The texts here have few digits:
\* no number nears the width of u64 or usize.)
FromStrOk(text) ==
  /\ Unsigned(text) # <<>>
  /\ \A i \in 1..Len(Unsigned(text)) : IsDigit(Unsigned(text)[i])

\* Their value.
FromStr(text) == Decimal(Unsigned(text))

\* A check that asks for the payload alone to be buffered after the header.
EnoughForPayload(len, payload_len, remaining) == len + payload_len + 2 <= remaining

\* lib.rs:388: the header line, its line end, the payload and two more bytes
\* are buffered.
Enough(len, payload_len, remaining) == len + payload_len + 4 <= remaining

\* try_read_op's INFO arm once the line end is found (lib.rs:345-353).
TryReadInfo(buf, len) ==
  LET line == Slice(buf, 5, len) IN
  IF ~Utf8(line) \/ ~FromJson(line)
  THEN [ret |-> Returned("err", NoOp), rest |-> buf]
  ELSE [ret |-> Returned("op", Plain("Info")), rest |-> Advance(buf, len + 2)]

\* try_read_op's MSG arm once the line end is found (lib.rs:360-405): the
\* from_utf8 of the header is unwrapped; the header's arguments are three or
\* four, its sid and payload length are parsed, and with enough bytes
\* buffered the header, the payload and two more bytes are taken.
TryReadMsg(buf, len) ==
  LET line == Slice(buf, 4, len)
      args == Args(line)
      payload_len == FromStr(args[Len(args)])
  IN
  IF ~Utf8(line)
  THEN [ret |-> Returned("panic", NoOp), rest |-> buf]
  ELSE IF Len(args) \notin {3, 4} \/ ~FromStrOk(args[2]) \/ ~FromStrOk(args[Len(args)])
  THEN [ret |-> Returned("err", NoOp), rest |-> buf]
  ELSE IF Enough(len, payload_len, Len(buf))
  THEN [ret |-> Returned("op",
                  Message(FromStr(args[2]), args[1],
                          IF Len(args) = 4 THEN <<args[3]>> ELSE <<>>,
                          Slice(buf, len + 2, len + 2 + payload_len))),
        rest |-> Advance(buf, len + 2 + payload_len + 2)]
  ELSE [ret |-> Returned("none", NoOp), rest |-> buf]

\* Connection::try_read_op (lib.rs:325-409): what it returns and what it
\* leaves in the read buffer.
TryReadOpOf(buf) ==
  IF StartsWith(buf, <<"+", "O", "K">> \o CRLF)
  THEN [ret |-> Returned("op", Plain("Ok")), rest |-> Advance(buf, 5)]
  ELSE IF StartsWith(buf, <<"P", "I", "N", "G">> \o CRLF)
  THEN [ret |-> Returned("op", Plain("Ping")), rest |-> Advance(buf, 6)]
  ELSE IF StartsWith(buf, <<"P", "O", "N", "G">> \o CRLF)
  THEN [ret |-> Returned("op", Plain("Pong")), rest |-> Advance(buf, 6)]
  ELSE IF StartsWith(buf, <<"I", "N", "F", "O", "SP">>) /\ Found(buf, CRLF)
  THEN TryReadInfo(buf, Find(buf, CRLF))
  ELSE IF StartsWith(buf, <<"M", "S", "G", "SP">>) /\ Found(buf, CRLF)
  THEN TryReadMsg(buf, Find(buf, CRLF))
  ELSE [ret |-> Returned("none", NoOp), rest |-> buf]

\* read_op calls try_read_op (lib.rs:413): an op or an error returns from
\* read_op, Ok(None) goes on to read the stream, and a panic unwinds the task.
TryReadOp ==
  /\ readPc = "try"
  /\ readResult' = TryReadOpOf(buffer).ret
  /\ buffer' = TryReadOpOf(buffer).rest
  /\ taken' = taken \o SubSeq(buffer, 1, Len(buffer) - Len(buffer'))
  /\ readPc' = CASE readResult'.kind = "none" -> "read"
                 [] readResult'.kind = "panic" -> "panicked"
                 [] OTHER -> "returned"
  /\ UNCHANGED <<stream, handshake, pings>>
  /\ UNCHANGED <<queue, loopPc, loopArg, lock, next_sid, next_uid,
                 subscription_map, uid_map, chan, subscriber, received, ended,
                 sent, ctl, readState, wbuf, wire, lost, ioErrors, ticks,
                 calls, pc, arg, issued, outcome, sink>>

\* A test of the read buffer that finds it empty whatever it holds.
AlwaysEmpty(buf) == TRUE

\* self.buffer.is_empty() (lib.rs:418)
IsEmpty(buf) == buf = <<>>

\* read_op reads the stream (lib.rs:417-423): n bytes more are buffered and
\* read_op goes round; at the end of the stream read_op returns Ok(None) with
\* an empty buffer and a ConnectionReset error otherwise.
ReadBuf(n) ==
  /\ readPc = "read"
  /\ IF stream = <<>>
     THEN /\ n = 1
          /\ readResult' = IF IsEmpty(buffer) THEN Returned("end", NoOp)
                       ELSE Returned("err", NoOp)
          /\ readPc' = "returned"
          /\ UNCHANGED <<stream, buffer>>
     ELSE /\ n <= Len(stream)
          /\ buffer' = buffer \o SubSeq(stream, 1, n)
          /\ stream' = Advance(stream, n)
          /\ readPc' = "try"
          /\ UNCHANGED readResult
  /\ UNCHANGED <<taken, handshake, pings>>
  /\ UNCHANGED <<queue, loopPc, loopArg, lock, next_sid, next_uid,
                 subscription_map, uid_map, chan, subscriber, received, ended,
                 sent, ctl, readState, wbuf, wire, lost, ioErrors, ticks,
                 calls, pc, arg, issued, outcome, sink>>

\* A match that takes any op for the server's INFO.
IsAnyOp(ret) == ret.kind = "op"

\* The match of Connection::connect_with_options (lib.rs:279): read_op
\* returned Some(ServerOp::Info).
IsInfo(ret) == ret.kind = "op" /\ ret.op.kind = "Info"

\* Connection::connect_with_options from the return of its read_op on
\* (lib.rs:278-321) and connect_with_options after it (lib.rs:770-832): an
\* error of read_op, an op other than INFO and no op at all return an error,
\* as does a TLS upgrade that fails; otherwise the command queue is made,
\* Connect and Ping are sent and process is spawned.
Handshake(tls) ==
  /\ handshake = "reading"
  /\ readPc = "returned"
  /\ IF IsInfo(readResult) /\ tls = "ok"
     THEN /\ handshake' = "connected"
          /\ queue' = <<Cmd("Connect", "conn", 0, 0), Cmd("Ping", "conn", 0, 0)>>
          /\ loopPc' = "select"
     ELSE /\ handshake' = "failed"
          /\ UNCHANGED <<queue, loopPc>>
  /\ UNCHANGED <<stream, buffer, readPc, readResult, taken, pings>>
  /\ UNCHANGED <<loopArg, lock, next_sid, next_uid,
                 subscription_map, uid_map, chan, subscriber, received, ended,
                 sent, ctl, readState, wbuf, wire, lost, ioErrors, ticks,
                 calls, pc, arg, issued, outcome, sink>>

\* process calls read_op again (lib.rs:602) once it has taken its readResult: an
\* op, or an error, which it ignores.
ReadOpAgain ==
  /\ handshake = "connected"
  /\ readPc = "returned"
  /\ readResult.kind \in {"op", "err"}
  /\ readPc' = "try"
  /\ UNCHANGED <<stream, buffer, readResult, taken, handshake, pings>>
  /\ UNCHANGED <<queue, loopPc, loopArg, lock, next_sid, next_uid,
                 subscription_map, uid_map, chan, subscriber, received, ended,
                 sent, ctl, readState, wbuf, wire, lost, ioErrors, ticks,
                 calls, pc, arg, issued, outcome, sink>>

(* ----------------------------------------------------------- specification *)

\* Nothing has used the connection: an empty registry with its counters at 1
\* (lib.rs:509-516), nothing written, no call made.
Fresh ==
  /\ loopArg = NoArg
  /\ lock = "free"
  /\ next_sid = 1
  /\ next_uid = 1
  /\ subscription_map = <<>>
  /\ uid_map = <<>>
  /\ chan = [e \in Sids |-> <<>>]
  /\ subscriber = [e \in Sids |-> "none"]
  /\ received = [e \in Sids |-> <<>>]
  /\ ended = [e \in Sids |-> FALSE]
  /\ sent = [s \in Sids |-> 0]
  /\ ctl = 0
  /\ readState = "open"
  /\ wbuf = <<>>
  /\ wire = [o \in Origins |-> <<>>]
  /\ lost = {}
  /\ ioErrors = 0
  /\ ticks = 0
  /\ calls = 0
  /\ pc = [h \in Handles |-> "idle"]
  /\ arg = [h \in Handles |-> 0]
  /\ issued = [h \in Handles |-> 0]
  /\ outcome = [h \in Handles |-> "none"]
  /\ sink = [h \in Handles |-> "none"]

\* The server's INFO, as short as it can be.
InfoFrame == <<"I", "N", "F", "O", "SP", "{", "}">> \o CRLF

\* connect_with_options has returned (lib.rs:771-832): the server's INFO is
\* read, Connect and Ping are sent (lib.rs:796-805), process is spawned.
Init ==
  /\ Fresh
  /\ queue = <<Cmd("Connect", "conn", 0, 0), Cmd("Ping", "conn", 0, 0)>>
  /\ loopPc = "select"
  /\ stream = <<>>
  /\ buffer = <<>>
  /\ readPc = "returned"
  /\ readResult = Returned("op", Plain("Info"))
  /\ taken = InfoFrame
  /\ handshake = "connected"
  /\ pings = 0

\* The steps of the event loop.
LoopStep ==
  \/ LoopRecvUnsubscribe
  \/ LoopUnsubLocked
  \/ LoopRecvWrite
  \/ \E sid \in Sids : LoopReadMsg(sid)
  \/ LoopMsgLocked
  \/ LoopSendResume
  \/ LoopReadPing
  \/ LoopReadIgnored
  \/ LoopReadEnd
  \/ LoopReadErr

Next ==
  \/ LoopRecvUnsubscribe
  \/ LoopUnsubLocked
  \/ LoopRecvWrite
  \/ \E sid \in Sids : LoopReadMsg(sid)
  \/ LoopMsgLocked
  \/ LoopSendResume
  \/ LoopReadPing
  \/ LoopReadIgnored
  \/ LoopReadEnd
  \/ LoopReadErr
  \/ \E h \in Handles : Publish(h)
  \/ \E h \in Handles : SubscribeInsert(h)
  \/ \E h \in Handles : SubscribeSend(h)
  \/ \E h \in Handles : FlushSend(h)
  \/ \E h \in Handles : FlushReturn(h)
  \/ \E h \in Handles : ClientDrop(h)
  \/ \E e \in Sids : SubscriberNext(e)
  \/ \E e \in Sids : SubscriberDrop(e)
  \/ \E e \in Sids : UnsubscribeSend(e)
  \/ \E op \in {"Ping", "TryFlush"} : Tick(op)

Spec == Init /\ [][Next]_vars

\* The connection when its Client handles are used for request calls: the
\* event loop, the steps of the calls, and the tasks their dropped Subscribers
\* spawn.
NextWithRequest ==
  \/ LoopRecvUnsubscribe
  \/ LoopUnsubLocked
  \/ LoopRecvWrite
  \/ \E sid \in Sids : LoopReadMsg(sid)
  \/ LoopMsgLocked
  \/ LoopSendResume
  \/ LoopReadPing
  \/ LoopReadIgnored
  \/ LoopReadEnd
  \/ LoopReadErr
  \/ \E h \in Handles : RequestInsert(h)
  \/ \E h \in Handles : RequestSubscribe(h)
  \/ \E h \in Handles : RequestPublish(h)
  \/ \E h \in Handles : RequestFlush(h)
  \/ \E h \in Handles : RequestFlushed(h)
  \/ \E h \in Handles : RequestNext(h)
  \/ \E e \in Sids : UnsubscribeSend(e)

RequestSpec == Init /\ [][NextWithRequest]_vars

\* The frames the server sends that are well formed, each with the op it
\* stands for: +OK, PING, PONG, INFO, and MSG without and with a reply
\* subject, with a payload that holds a line end, and with an empty payload.
ValidFrames ==
  { [bytes |-> <<"+", "O", "K">> \o CRLF, op |-> Plain("Ok")],
    [bytes |-> <<"P", "I", "N", "G">> \o CRLF, op |-> Plain("Ping")],
    [bytes |-> <<"P", "O", "N", "G">> \o CRLF, op |-> Plain("Pong")],
    [bytes |-> InfoFrame, op |-> Plain("Info")],
    [bytes |-> <<"M", "S", "G", "SP", "a", "SP", "1", "SP", "1">> \o CRLF
                 \o <<"x">> \o CRLF,
     op |-> Message(1, <<"a">>, <<>>, <<"x">>)],
    [bytes |-> <<"M", "S", "G", "SP", "a", "SP", "2", "SP", "b", "SP", "2">> \o CRLF
                 \o CRLF \o CRLF,
     op |-> Message(2, <<"a">>, <<<<"b">>>>, CRLF)],
    [bytes |-> <<"M", "S", "G", "SP", "a", "b", "SP", "1", "2", "SP", "0">> \o CRLF
                 \o CRLF,
     op |-> Message(12, <<"a", "b">>, <<>>, <<>>)] }

\* Frames whose header line is not well formed: a MSG header and an INFO line
\* that are not UTF-8, a sid and a payload length that are no numbers, a MSG
\* header of two and of five arguments, an INFO that is not JSON.
MalformedFrames ==
  { <<"M", "S", "G", "SP", "FF", "SP", "1", "SP", "0">> \o CRLF \o CRLF,
    <<"I", "N", "F", "O", "SP", "FF">> \o CRLF,
    <<"M", "S", "G", "SP", "a", "SP", "x", "SP", "0">> \o CRLF \o CRLF,
    <<"M", "S", "G", "SP", "a", "SP", "1", "SP", "x">> \o CRLF,
    <<"M", "S", "G", "SP", "a", "SP", "1">> \o CRLF,
    <<"M", "S", "G", "SP", "a", "SP", "1", "SP", "b", "SP", "1", "SP", "1">> \o CRLF,
    <<"I", "N", "F", "O", "SP", "{">> \o CRLF }

\* Those, a MSG whose payload is not followed by a line end, and a MSG and a
\* PING the stream ends in.
BadFrames ==
  MalformedFrames \cup
  { <<"M", "S", "G", "SP", "a", "SP", "1", "SP", "1">> \o CRLF \o <<"x", "a", "b">>,
    <<"M", "S", "G", "SP", "a", "SP", "1", "SP", "2">> \o CRLF \o <<"x">>,
    <<"P", "I", "N">> }

\* What the server sends before it closes the stream: nothing, one frame, or
\* its INFO and one frame.
Inputs ==
  LET Frames == {f.bytes : f \in ValidFrames} \cup BadFrames
  IN {<<>>} \cup Frames \cup {InfoFrame \o f : f \in Frames}

\* Connection::connect_with_options has connected the socket (lib.rs:270-276)
\* and is about to read the server's first op: the read buffer is empty,
\* nothing of the connection is made yet.
ParserInit ==
  /\ Fresh
  /\ queue = <<>>
  /\ loopPc = "unspawned"
  /\ stream \in Inputs
  /\ buffer = <<>>
  /\ readPc = "try"
  /\ readResult = Returned("idle", NoOp)
  /\ taken = <<>>
  /\ handshake = "reading"
  /\ pings = 0

\* process takes Ok(None) from read_op and returns Ok(()) (lib.rs:629-631).
ProcessEnd ==
  /\ handshake = "connected"
  /\ readPc = "returned"
  /\ readResult.kind = "end"
  /\ LoopReadEnd

\* The read side of the connection: read_op's steps, the handshake on its
\* first return, the calls of read_op after it and the end of process on the
\* end of the stream.
ParserNext ==
  \/ TryReadOp
  \/ \E n \in 1..MaxRead : ReadBuf(n)
  \/ \E tls \in {"ok", "err"} : Handshake(tls)
  \/ ReadOpAgain
  \/ ProcessEnd

ParserSpec == ParserInit /\ [][ParserNext]_vars

\* The steps the event loop takes on its own: a queued command, a registry
\* guard it waits for, a delivery it waits in.
LoopProgress ==
  \/ LoopRecvUnsubscribe
  \/ LoopUnsubLocked
  \/ LoopRecvWrite
  \/ LoopMsgLocked
  \/ LoopSendResume

\* The tokio runtime runs every task that can go on: the event loop, a Client
\* call that is under way and the task a dropped Subscriber spawned. Nothing
\* makes a Subscriber consume, a caller call, or the server send.
FairSpec ==
  /\ Init /\ [][Next]_vars
  /\ WF_vars(LoopProgress)
  /\ \A h \in Handles : WF_vars(SubscribeSend(h)) /\ WF_vars(FlushReturn(h))
  /\ \A e \in Sids : WF_vars(UnsubscribeSend(e))

\* FairSpec with Subscribers that keep polling: a Subscriber whose poll can
\* return is polled.
PollingSpec ==
  /\ FairSpec
  /\ \A e \in Sids : WF_vars(SubscriberNext(e))

\* The connection with a server whose PINGs wait in the socket until process
\* reads them.
NextWithPing ==
  \/ LoopRecvUnsubscribe
  \/ LoopUnsubLocked
  \/ LoopRecvWrite
  \/ \E sid \in Sids : LoopReadMsg(sid)
  \/ LoopMsgLocked
  \/ LoopSendResume
  \/ ServerPing
  \/ LoopReadSentPing
  \/ LoopReadEnd
  \/ LoopReadErr
  \/ \E h \in Handles : SubscribeInsert(h)
  \/ \E h \in Handles : SubscribeSend(h)
  \/ \E e \in Sids : SubscriberNext(e)
  \/ \E e \in Sids : SubscriberDrop(e)
  \/ \E e \in Sids : UnsubscribeSend(e)

\* That connection under the tokio runtime: the event loop is run whenever it
\* can go on, a PING that waits to be read included, and so are a subscribe
\* call under way and the task of a dropped Subscriber.
PingSpec ==
  /\ Init /\ [][NextWithPing]_vars
  /\ WF_vars(LoopProgress)
  /\ WF_vars(LoopReadSentPing)
  /\ \A h \in Handles : WF_vars(SubscribeSend(h))
  /\ \A e \in Sids : WF_vars(UnsubscribeSend(e))

\* RequestSpec under the tokio runtime: the event loop and every request call
\* that can go on are run.
FairRequestSpec ==
  /\ RequestSpec
  /\ WF_vars(LoopProgress)
  /\ \A h \in Handles :
       /\ WF_vars(RequestSubscribe(h))
       /\ WF_vars(RequestPublish(h))
       /\ WF_vars(RequestFlush(h))
       /\ WF_vars(RequestFlushed(h))
       /\ WF_vars(RequestNext(h))
  /\ \A e \in Sids : WF_vars(UnsubscribeSend(e))

(* ------------------------------------------------------------------ claims *)

\* UNSUB frames carrying sid among the frames of s.
UnsubsIn(s, sid) == Cardinality({i \in 1..Len(s) : s[i].op = "UNSUB" /\ s[i].id = sid})

\* UNSUB frames for sid the event loop has written so far.
Unsubs(sid) == UnsubsIn(wire["sub"], sid) + UnsubsIn(wire["loop"], sid) + UnsubsIn(wbuf, sid)

\* The event loop takes up a MSG for sid in this step, the registry guard got.
HandlesMsg(sid) ==
  \/ LoopReadMsg(sid) /\ lock = "free"
  \/ LoopMsgLocked /\ loopArg.id = sid

\* C1: when the event loop handles a MSG for a sid whose endpoint is full and
\* whose Subscriber is alive and not consuming, the delivery fails: the sid
\* leaves subscription_map and an UNSUB for it is written.
C1_FullEndpointEvicts ==
  [][\A sid \in Sids :
       (/\ HandlesMsg(sid)
        /\ sid \in DOMAIN subscription_map
        /\ Len(chan[sid]) = SubscriptionCapacity
        /\ subscriber[sid] = "live")
       => (sid \notin DOMAIN subscription_map' /\ Unsubs(sid)' = Unsubs(sid) + 1)]_vars

\* C2: the event loop never waits indefinitely in a delivery: whenever a
\* command is queued and no Client call holds the registry guard, the loop can
\* take a step, whatever the Subscribers do.
C2_LoopGoesOn ==
  (~Terminated /\ queue # <<>> /\ lock \notin Handles) => ENABLED LoopStep

\* C3: for every sid the event loop writes at most one UNSUB, also when an
\* Unsubscribe{uid} arrives after the sid was evicted, and once the UNSUB is
\* written the sid is no longer registered, so nothing more is delivered to it.
C3_OneUnsub ==
  \A sid \in Sids :
    /\ Unsubs(sid) <= 1
    /\ Unsubs(sid) = 1 => sid \notin DOMAIN subscription_map

\* C4: a MSG frame carrying sid S is only ever placed in the endpoint
\* registered for S: every message an endpoint buffers or has yielded carries
\* the sid the endpoint is registered under.
C4_Routing ==
  \A e \in Sids :
    /\ \A i \in 1..Len(chan[e]) : chan[e][i].id = e
    /\ \A i \in 1..Len(received[e]) : received[e][i].id = e

\* C4's case: two subscriptions are registered and each endpoint holds a
\* message.
C4_Witness ==
  \E a, b \in DOMAIN subscription_map : a # b /\ chan[a] # <<>> /\ chan[b] # <<>>

\* The MSG for sid the event loop holds while it waits for the guard or for
\* room in the endpoint.
InFlight(sid) ==
  IF loopPc \in {"lock_msg", "sending"} /\ loopArg.id = sid THEN 1 ELSE 0

FramedFrom(q, h) == LET Is(c) == c.h = h /\ c.op \in FramedOps IN SelectSeq(q, Is)

\* The frames of handle h, from the socket back to the command queue.
Pipeline(h) == wire[h] \o From(wbuf, h) \o FramedFrom(queue, h)

\* C6: the frames of one Client handle go to the wire in the order the handle
\* enqueued them: along the socket, the write buffer and the command queue no
\* two are out of order.
C6_HandleOrder ==
  \A h \in Handles :
    \A i, j \in 1..Len(Pipeline(h)) : i < j => Pipeline(h)[i].n < Pipeline(h)[j].n

\* C6's case: two frames of one handle have reached the socket while another
\* origin's frame is there too.
C6_Witness ==
  \E h \in Handles : Len(wire[h]) >= 2 /\ wire["conn"] # <<>>

\* The frame of handle h numbered n is on the socket.
OnWire(h, n) == \E i \in 1..Len(wire[h]) : wire[h][i].n = n

\* flush() is about to return Ok to h: its oneshot holds Ok(()).
FlushOk(h) == pc[h] = "flush_wait" /\ sink[h] = "ok"

\* C7, as claimed: when flush() returns Ok, every frame the handle enqueued
\* before is on the wire.
C7_FlushedAll ==
  \A h \in Handles : FlushOk(h) => \A n \in 1..issued[h] : OnWire(h, n)

\* C7, amended: when flush() returns Ok, every frame the handle enqueued
\* before has been taken from the queue, and is on the wire unless its
\* write_op failed.
C7_FlushedAllWritten ==
  \A h \in Handles :
    FlushOk(h) =>
      /\ FramedFrom(queue, h) = <<>>
      /\ \A n \in 1..issued[h] : OnWire(h, n) \/ <<h, n>> \in lost

\* C7's case: flush() returns Ok to a handle with a frame of its own on the
\* wire.
C7_Witness == \E h \in Handles : FlushOk(h) /\ issued[h] >= 1 /\ OnWire(h, 1)

\* C8: every flush() call eventually returns: a handle waiting on its oneshot
\* gets the flush's result, or an error once the event loop has terminated.
C8_FlushReturns ==
  \A h \in Handles : (pc[h] = "flush_wait") ~> (pc[h] # "flush_wait")

\* C9: once the event loop has terminated, Client calls fail with an error:
\* publish and flush return Err, no call panics, and the registry is left as
\* it was.
C9_CallsFailCleanly ==
  [][Terminated =>
       /\ subscription_map' = subscription_map
       /\ next_sid' = next_sid
       /\ \A h \in Handles :
            /\ pc'[h] # "panicked"
            /\ (Publish(h) \/ FlushSend(h)) => outcome'[h] = "err"]_vars

\* C10: a read error ends the event loop: once read_op has returned an error
\* no command is taken from the queue any more.
C10_ReadErrorStops ==
  [][readState = "broken" => ~(LoopRecvWrite \/ LoopRecvUnsubscribe)]_vars

\* C11: once every Client handle is dropped the command queue closes, and the
\* event loop eventually terminates.
C11_DropTerminates ==
  (\A h \in Handles : pc[h] = "dropped") ~> Terminated

\* C12: the sids registry inserts return start at 1 and strictly increase:
\* every insert returns a sid greater than every sid returned before, whether
\* or not the earlier subscription is still registered.
C12_SidsIncrease ==
  /\ [](uid_map = <<>> => next_sid = 1)
  /\ [][/\ next_sid' >= next_sid
        /\ \A h \in Handles :
             (arg[h] = 0 /\ arg'[h] # 0) =>
               /\ arg'[h] = next_sid
               /\ next_sid' > next_sid
               /\ \A u \in DOMAIN uid_map : uid_map[u] < arg'[h]]_vars

\* C12's case: a second sid has been handed out after the first subscription
\* was removed from the registry.
C12_Witness ==
  \E h \in Handles : arg[h] = 2 /\ 1 \notin DOMAIN subscription_map

\* The Subscribe commands in q.
SubscribesIn(q) == {i \in 1..Len(q) : q[i].op = "Subscribe"}

\* The SUB frames among the frames of s.
SubsIn(s) == {i \in 1..Len(s) : s[i].op = "SUB"}

\* C13: a Subscribe{sid} command is enqueued only after its sid was inserted
\* in the registry: while the command is queued its sid is in
\* subscription_map, and every SUB frame written carries a sid the registry
\* has inserted (uid_map keeps every inserted sid).
C13_InsertedBeforeEnqueued ==
  /\ \A i \in SubscribesIn(queue) : queue[i].id \in DOMAIN subscription_map
  /\ \A i \in SubsIn(wbuf) : wbuf[i].id \in DOMAIN uid_map
  /\ \A h \in Handles : \A i \in SubsIn(wire[h]) :
       /\ wire[h][i].id \in DOMAIN uid_map
       /\ wire[h][i].id < next_sid

\* C13's case: a Subscribe command is queued while the SUB frame of another
\* subscription is on the wire.
C13_Witness ==
  /\ SubscribesIn(queue) # {}
  /\ \E h \in Handles : SubsIn(wire[h]) # {}

\* Connect or Ping of connect_with_options is still in the command queue.
HandshakeQueued == \E i \in 1..Len(queue) : queue[i].h = "conn"

\* C14: CONNECT and PING are the first two frames the event loop writes: while
\* either command of connect_with_options is still queued, no frame of any
\* other origin has been written, whatever the server has sent.
C14_ConnectFirst ==
  HandshakeQueued =>
    \A o \in Origins \ {"conn"} : wire[o] = <<>> /\ From(wbuf, o) = <<>>

\* The frames of handle h the event loop has written, flushed or not.
WrittenBy(h) == wire[h] \o From(wbuf, h)

\* The PUB frames of request calls among the frames of s: they carry the
\* inbox, named by its sid, as their reply subject.
RequestPubsIn(s) == {j \in 1..Len(s) : s[j].op = "PUB" /\ s[j].id # 0}

\* A SUB frame for sid is among the first j - 1 frames of s.
SubBefore(s, j, sid) == \E i \in 1..(j - 1) : s[i].op = "SUB" /\ s[i].id = sid

\* request returns Ok(message) to h in this step.
RequestReturnsOk(h) == pc[h] = "req_next" /\ pc'[h] = "idle" /\ outcome'[h] = "ok"

\* C15, as claimed: for every request the SUB frame of its inbox is written
\* before the PUB frame that carries the inbox as its reply subject.
C15_SubBeforePub ==
  \A h \in Handles : \A j \in RequestPubsIn(WrittenBy(h)) :
    SubBefore(WrittenBy(h), j, WrittenBy(h)[j].id)

\* C15, amended: the PUB frame of a request is never written before the SUB
\* frame of its inbox, and the SUB frame is written before it unless the
\* write of the SUB failed; and the message request returns is the first
\* message the server sent for the inbox.
C15_SubBeforePubIfWritten ==
  /\ [](\A h \in Handles : \A j \in RequestPubsIn(WrittenBy(h)) :
         /\ \/ SubBefore(WrittenBy(h), j, WrittenBy(h)[j].id)
            \/ <<h, WrittenBy(h)[j].n - 1>> \in lost
         /\ \A i \in SubsIn(WrittenBy(h)) :
              WrittenBy(h)[i].id = WrittenBy(h)[j].id => i < j)
  /\ [][\A h \in Handles :
          RequestReturnsOk(h) =>
            received'[arg[h]] = <<Msg(arg[h], 1)>>]_vars

\* C15's case: a request has returned a message, with the SUB and the PUB of
\* its inbox on the wire.
C15_Witness ==
  \E h \in Handles :
    /\ outcome[h] = "ok"
    /\ \E j \in RequestPubsIn(wire[h]) :
         /\ SubBefore(wire[h], j, wire[h][j].id)
         /\ received[wire[h][j].id] # <<>>

\* C16: when a Subscriber is dropped while the event loop runs, its sid is
\* eventually removed from subscription_map and an UNSUB for it written, unless
\* the event loop terminates first.
C16_DropUnsubscribes ==
  \A e \in Sids :
    (subscriber[e] = "closing" /\ ~Terminated)
      ~> (Terminated \/ (e \notin DOMAIN subscription_map /\ Unsubs(e) >= 1))

\* The sids this step takes out of subscription_map.
Removed == DOMAIN subscription_map \ DOMAIN subscription_map'

\* This step of the event loop is about sid: it handles Unsubscribe for the
\* uid of sid, or a MSG for sid.
StepAbout(sid) ==
  \/ LoopRecvUnsubscribe /\ GetSid(Head(queue).id) = sid
  \/ LoopUnsubLocked /\ GetSid(loopArg.id) = sid
  \/ LoopReadMsg(sid)
  \/ (LoopMsgLocked \/ LoopSendResume) /\ loopArg.id = sid

\* C17: a step that removes a subscription, for an Unsubscribe or by
\* eviction, removes only the sid it is about: every other entry of
\* subscription_map stays as it is, with what its endpoint buffers, and so do
\* the identifier counters and uid_map.
C17_OthersUntouched ==
  [][\A r \in Removed :
       /\ StepAbout(r)
       /\ Removed = {r}
       /\ \A s \in DOMAIN subscription_map \ {r} :
            /\ s \in DOMAIN subscription_map'
            /\ subscription_map'[s] = subscription_map[s]
            /\ chan'[s] = chan[s]
       /\ next_sid' = next_sid
       /\ next_uid' = next_uid
       /\ uid_map' = uid_map]_vars

\* C17's case: the first subscription was removed while a second was
\* registered, and the second has received a message since.
C17_Witness ==
  /\ 1 \in DOMAIN uid_map
  /\ 1 \notin DOMAIN subscription_map
  /\ 2 \in DOMAIN subscription_map
  /\ received[2] # <<>>
  /\ Unsubs(1) >= 1

\* C18: once the event loop has found the endpoint of a Subscriber full, the
\* subscription is evicted and the Subscriber's sequence ends: a Subscriber
\* that keeps polling consumes what is buffered and then gets end-of-sequence,
\* it does not stay pending.
C18_SequenceEnds ==
  \A e \in Sids :
    (loopPc = "sending" /\ loopArg.id = e /\ subscriber[e] = "live")
      ~> (ended[e] \/ subscriber[e] # "live")

\* C19: a write error on a frame never terminates the event loop: a step of
\* the running loop in which a write or a flush of the stream fails leaves the
\* loop running.
C19_WriteErrorGoesOn ==
  [][(~Terminated /\ ioErrors' > ioErrors) => ~Terminated']_vars

\* C20: when the event loop has returned Ok, because the command queue closed
\* or the server stream ended, the write buffer holds no unflushed frame.
C20_FlushedAtExit ==
  loopPc = "done" => wbuf = <<>>

\* The step is a call of handle h sending its command to the queue.
SendStep(h) == Publish(h) \/ SubscribeSend(h) \/ FlushSend(h)

\* C21: the command queue never holds more than its capacity and no delivery
\* endpoint more than its own; and while the event loop is alive a send to the
\* queue is taken only when the queue has room, the command then appended at
\* its back and the call not failed: a producer finding the queue full waits,
\* its command neither dropped nor rejected.
C21_BoundedQueues ==
  /\ [](/\ Len(queue) <= CommandCapacity
        /\ \A e \in Sids : Len(chan[e]) <= SubscriptionCapacity)
  /\ [][\A h \in Handles :
          SendStep(h) /\ ~Terminated =>
            /\ Len(queue) < CommandCapacity
            /\ Len(queue') = Len(queue) + 1
            /\ queue'[Len(queue')].h = h
            /\ outcome'[h] \in {outcome[h], "ok"}
            /\ pc'[h] # "panicked"]_vars

\* The queue is full of commands of which one was sent by a call that had
\* waited for room, the loop is alive, and a subscribe call waits to send.
C21_Witness ==
  /\ ~Terminated
  /\ Len(queue) = CommandCapacity
  /\ \E i \in 1..Len(queue) : queue[i].h \in Handles
  /\ \E h \in Handles : pc[h] = "sub_send"

\* C26: the registry guard is held only for map operations and one delivery
\* attempt that does not block: in no state does a task hold the guard while
\* it waits for room in the command queue or in a delivery endpoint.
C26_NoWaitUnderLock ==
  /\ ~(lock = "loop" /\ loopPc = "sending")
  /\ \A h \in Handles : ~(lock = h /\ pc[h] = "sub_send" /\ ~CanSend)

\* C27: in no state does the event loop wait for the registry guard while its
\* holder, a subscribe call, waits for room in the full command queue, which
\* only the event loop empties.
C27_NoDeadlock ==
  ~(/\ loopPc \in {"lock_msg", "lock_unsub"}
    /\ \E h \in Handles : lock = h /\ pc[h] = "sub_send"
    /\ Len(queue) = CommandCapacity)

\* C28: in every state the two counters are equal, every key of either map is
\* below them, and every sid of subscription_map has exactly one uid mapped
\* to it in uid_map, the uid equal to the sid; and a step that registers a sid
\* registers its uid in the same step, taken by a call that then holds the
\* registry guard.
C28_RegistryConsistent ==
  /\ [](/\ next_sid = next_uid
        /\ \A u \in DOMAIN uid_map : u < next_uid
        /\ \A s \in DOMAIN subscription_map :
             /\ s < next_sid
             /\ {u \in DOMAIN uid_map : uid_map[u] = s} = {s})
  /\ [][\A s \in DOMAIN subscription_map' \ DOMAIN subscription_map :
          /\ s \notin DOMAIN uid_map
          /\ s \in DOMAIN uid_map'
          /\ lock = "free"
          /\ lock' \in Handles]_vars

\* Both sids are registered under their uids, the first since removed from
\* subscription_map with its uid left in uid_map.
C28_Witness ==
  /\ next_sid = 3
  /\ DOMAIN uid_map = {1, 2}
  /\ DOMAIN subscription_map = {2}

\* C29: a step that takes an entry out of subscription_map is a step of the
\* event loop: no Client call, no Subscriber poll or drop and no task a
\* dropped Subscriber spawned shrinks the map; the drop only has a command
\* enqueued.
C29_OnlyLoopRemoves ==
  [][/\ Removed # {} => LoopStep
     /\ \A e \in Sids :
          SubscriberDrop(e) \/ UnsubscribeSend(e) =>
            /\ UNCHANGED <<subscription_map, uid_map, wbuf, wire>>
            /\ Len(queue') >= Len(queue)]_vars

\* A Subscriber was dropped, its Unsubscribe enqueued and handled: its sid is
\* out of subscription_map while another sid is registered.
C29_Witness ==
  \E e \in Sids :
    /\ subscriber[e] = "gone"
    /\ e \notin DOMAIN subscription_map
    /\ UnsubsIn(wire["sub"], e) + UnsubsIn(wbuf, e) >= 1
    /\ DOMAIN subscription_map # {}

\* The event loop handles a dequeued Unsubscribe in this step, the registry
\* guard got.
HandlesUnsubscribe(cmd) ==
  \/ LoopRecvUnsubscribe /\ lock = "free" /\ cmd = Head(queue)
  \/ LoopUnsubLocked /\ cmd = loopArg

\* The UNSUB frame for the sid a dequeued Unsubscribe resolves to.
UnsubFrame(cmd) == [op |-> "UNSUB", h |-> cmd.h, n |-> cmd.n, id |-> uid_map[cmd.id]]

\* What every handling of a dequeued Unsubscribe does to the registry: with
\* no mapping for its uid nothing is written and the registry is unchanged;
\* otherwise the mapped sid, and no other, is out of subscription_map.
UnsubscribeRegistry(cmd) ==
  /\ UNCHANGED <<uid_map, next_sid, next_uid, wire>>
  /\ IF cmd.id \notin DOMAIN uid_map
     THEN UNCHANGED <<subscription_map, wbuf>>
     ELSE /\ DOMAIN subscription_map' = DOMAIN subscription_map \ {uid_map[cmd.id]}
          /\ \A s \in DOMAIN subscription_map' : subscription_map'[s] = subscription_map[s]

\* C30 as stated: when the event loop handles a dequeued Unsubscribe whose
\* uid is mapped, the mapped sid is removed from subscription_map and exactly
\* one UNSUB frame carrying that sid is written.
C30_UnsubscribeWritten ==
  [][\A cmd \in {loopArg} \cup (IF queue = <<>> THEN {} ELSE {Head(queue)}) :
       HandlesUnsubscribe(cmd) =>
         /\ UnsubscribeRegistry(cmd)
         /\ cmd.id \in DOMAIN uid_map => wbuf' = Append(wbuf, UnsubFrame(cmd))]_vars

\* C30, amended: when the event loop handles a dequeued Unsubscribe, one
\* without mapping is dropped, nothing written and the registry unchanged;
\* otherwise the mapped sid is removed from subscription_map and exactly one
\* UNSUB frame carrying that sid is written, unless its write fails, which
\* is counted and leaves the writer as it was. (SubscriptionContext::insert
\* maps every uid a Subscriber carries and nothing unmaps it, so no dequeued
\* Unsubscribe is without mapping.)
C30_UnsubscribeWrittenUnlessFailed ==
  [][\A cmd \in {loopArg} \cup (IF queue = <<>> THEN {} ELSE {Head(queue)}) :
       HandlesUnsubscribe(cmd) =>
         /\ UnsubscribeRegistry(cmd)
         /\ cmd.id \in DOMAIN uid_map =>
              \/ wbuf' = Append(wbuf, UnsubFrame(cmd)) /\ ioErrors' = ioErrors
              \/ wbuf' = wbuf /\ ioErrors' = ioErrors + 1]_vars

\* An Unsubscribe was handled while its sid was registered: the sid is out of
\* subscription_map and its UNSUB frame, sent for the Subscriber's task, is in
\* the writer.
C30_Witness ==
  \E e \in Sids :
    /\ e \in DOMAIN uid_map
    /\ e \notin DOMAIN subscription_map
    /\ UnsubsIn(wbuf, e) = 1
    /\ \E i \in 1..Len(wbuf) : wbuf[i].op = "UNSUB" /\ wbuf[i].h = "sub"

\* C22: for every well-formed frame, when try_read_op is called with the
\* first k bytes of the frame in an otherwise empty buffer, it returns
\* Ok(None) and takes no byte if k is less than the frame's length, and
\* returns the frame's op, taking exactly the frame, if k is its length.
C22_PartialFrames ==
  [][TryReadOp =>
       \A f \in ValidFrames : \A k \in 1..Len(f.bytes) :
         buffer = SubSeq(f.bytes, 1, k) =>
           IF k < Len(f.bytes)
           THEN readResult'.kind = "none" /\ buffer' = buffer /\ taken' = taken
           ELSE /\ readResult' = Returned("op", f.op)
                /\ buffer' = <<>>
                /\ taken' = taken \o f.bytes]_vars

\* The MSG with a reply subject and a line end in its payload, read from the
\* stream in pieces after the server's INFO, was returned whole.
C22_Witness ==
  /\ readResult = Returned("op", Message(2, <<"a">>, <<<<"b">>>>, CRLF))
  /\ StartsWith(taken, InfoFrame)
  /\ Len(taken) > Len(InfoFrame)
  /\ buffer = <<>>

\* C23: when try_read_op returns a Message, the bytes it took are the header
\* line, the payload of as many bytes as the header declares, and the line
\* end CR LF after it; and when it returns Ok(None) it took no byte.
C23_PayloadBoundary ==
  [][TryReadOp =>
       /\ readResult'.kind = "none" => buffer' = buffer
       /\ readResult'.kind = "op" /\ readResult'.op.kind = "Message" =>
            LET len == Find(buffer, CRLF)
                N == Len(readResult'.op.payload)
                header == Args(Slice(buffer, 4, len))
            IN /\ FromStr(header[Len(header)]) = N
               /\ Len(buffer) - Len(buffer') = len + 2 + N + 2
               /\ readResult'.op.payload = Slice(buffer, len + 2, len + 2 + N)
               /\ Slice(buffer, len + 2 + N, len + 2 + N + 2) = CRLF]_vars

\* The buffer begins with the header line of a frame that is not well formed.
Malformed(buf) ==
  \E f \in MalformedFrames : StartsWith(buf, SubSeq(f, 1, Find(f, CRLF) + 2))

\* C24: when try_read_op is called with a header line that is not well
\* formed, it returns an error: it neither panics nor returns an op.
C24_MalformedIsError ==
  [][TryReadOp /\ Malformed(buffer) => readResult'.kind = "err"]_vars

\* C25: the handshake ends connected only if the first op read_op returned
\* is INFO, the first bytes taken from the stream; if read_op returned another
\* op or the end of the stream, it ends failed; and as long as it has not
\* ended connected the event loop is not spawned, no command is queued and
\* nothing is written.
C25_InfoFirst ==
  /\ [](handshake # "connected" =>
          /\ loopPc = "unspawned"
          /\ queue = <<>>
          /\ wbuf = <<>>
          /\ wire = [o \in Origins |-> <<>>])
  /\ [][handshake = "reading" /\ handshake' # "reading" =>
          /\ handshake' = "connected" =>
               readResult = Returned("op", Plain("Info")) /\ taken = InfoFrame
          /\ readResult.kind \in {"end", "err"} => handshake' = "failed"
          /\ readResult.kind = "op" /\ readResult.op.kind # "Info" =>
               handshake' = "failed"]_vars

\* The handshake failed on a first op that is not INFO, and the event loop is
\* not spawned.
C25_Witness ==
  /\ handshake = "failed"
  /\ readResult.kind = "op"
  /\ readResult.op.kind \in {"Ping", "Message"}
  /\ loopPc = "unspawned"

\* C34: when the event loop has terminated while a request call awaits its
\* reply on its Subscriber, the Subscriber's sequence ends and the call
\* returns, with a broken-pipe error if no reply was buffered: it does not
\* wait forever.
C34_RequestEndsAfterLoop ==
  \A h \in Handles :
    (Terminated /\ pc[h] = "req_next") ~> (pc[h] # "req_next")

\* C33: when read_buf reports the end of the stream, read_op returns
\* end-of-stream if the read buffer is empty and an error, ConnectionReset, if
\* it holds bytes, and in neither case an op; an op read_op returns was taken
\* whole from the buffer; and on end-of-stream the event loop does nothing but
\* return Ok.
C33_CleanCloseOrReset ==
  /\ [][readPc = "read" /\ stream = <<>> /\ readPc' # readPc =>
          readResult' = Returned(IF buffer = <<>> THEN "end" ELSE "err", NoOp)]_vars
  /\ [][readResult'.kind = "op" /\ readResult' # readResult =>
          /\ Len(buffer') < Len(buffer)
          /\ taken' \o buffer' = taken \o buffer]_vars
  /\ [][readResult.kind = "end" /\ handshake = "connected" =>
          /\ UNCHANGED parserVars
          /\ loopPc = "select" /\ loopPc' = "done"]_vars

\* After its INFO and one more frame the server closed the stream: read_op
\* returned end-of-stream on an empty buffer and the event loop returned Ok.
C33_Witness ==
  /\ readResult.kind = "end"
  /\ loopPc = "done"
  /\ Len(taken) > Len(InfoFrame)
  /\ buffer = <<>>

\* C32: every frame write_op left in the write buffer reaches the wire while
\* the loop runs, the periodic TryFlush draining the buffer: once frames are
\* buffered and a TryFlush is queued behind them, the buffer is eventually
\* empty, its frames on the wire, unless the event loop terminates or a write
\* or flush of the stream fails first.
C32_BufferDrained ==
  (/\ ~Terminated
   /\ ioErrors = 0
   /\ wbuf # <<>>
   /\ \E i \in 1..Len(queue) : queue[i].op = "TryFlush")
    ~> (wbuf = <<>> \/ Terminated \/ ioErrors > 0)

\* C31: every PING the server sends while the connection is open is
\* eventually answered: a PING that waits in the socket of a connection whose
\* loop runs and whose stream is readable is eventually read, with its PONG
\* written and flushed before anything else is handled, unless the event loop
\* terminates or the stream breaks first.
C31_PingAnswered ==
  (pings > 0 /\ ~Terminated /\ readState = "open")
    ~> (pings = 0 \/ Terminated \/ readState # "open")

====
